---------------------------- MODULE Spec2Model ----------------------------
(***************************************************************************)
(* Elliptic-curve key agreement of ECCDemo.py: the group law (inv, add,    *)
(* dbl), the double-and-add scalar multiplication (mul) and the MAIN       *)
(* script (key generation, secret/transmitted point, recovery).            *)
(*                                                                         *)
(* The 192-bit brainpoolP192t1 parameters are scaled down to a curve of    *)
(* the same shape over a field TLC can enumerate: p is a prime with        *)
(* p % 4 = 3, a = p - 3, the curve has prime cardinality n and G generates *)
(* it (ECCDemo.py lines 161-167 state cardinality = order of G = n).       *)
(*                                                                         *)
(* Points are the source's two-element lists [x, y]; Python's None is the  *)
(* integer None = -1, outside every field element.  A raised exception is  *)
(* the outcome <<"ValueError">>.                                           *)
(***************************************************************************)
EXTENDS Integers, Sequences, FiniteSets, TLC

\* ------------------------------------------------------------ parameters

\* Global curve parameters (scaled down from brainpoolP192t1).
p == 11
a == 8
b == 1
G == <<2, 5>>
n == 17

\* Python's None, used as both coordinates of the point at infinity.
None == -1

\* Largest scalar handed to mul by a direct call.
MaxK == 36
\* Largest value drawn for the integer read from os.urandom.
MaxRnd == 36

\* ------------------------------------------------------------ values

Identity == <<None, None>>
Field == 0 .. (p - 1)
\* every two-element list of field elements, and the point at infinity
Points == (Field \X Field) \cup {Identity}

\* The outcome of a call that raised ValueError (pow of a non-invertible base).
ValueError == <<"ValueError">>

\* int.bit_length() of a non-negative integer
RECURSIVE bit_length(_)
bit_length(x) == IF x = 0 THEN 0 ELSE 1 + bit_length(x \div 2)

\* number of bytes of the big-endian encoding int.from_bytes reads x from
byte_length(x) == (bit_length(x) + 7) \div 8

\* ------------------------------------------------------------ field

\* pow(x, -1, m) raises ValueError unless x has an inverse modulo m.
Invertible(x, m) == \E y \in 1 .. (m - 1) : (x * y) % m = 1

\* Python's three-argument pow(x, e, m) for e >= 0 and for e = -1; the result
\* is in [0, m) also for a negative base.
RECURSIVE pow(_, _, _)
pow(x, e, m) ==
    IF e = -1 THEN CHOOSE y \in 1 .. (m - 1) : (x * y) % m = 1
    ELSE IF e = 0 THEN 1 % m
    ELSE (x * pow(x, e - 1, m)) % m

\* ------------------------------------------------------------ group law

\* inv with the negation of y left out
inv_noNegate(P) ==
    LET xP == P[1]
        yP == P[2]
    IN  IF xP = None THEN <<None, None>>
        ELSE <<xP, yP % p>>

inv(P) ==
    LET xP == P[1]
        yP == P[2]
    IN  IF xP = None THEN <<None, None>>
        ELSE <<xP, (-yP) % p>>

\* dbl with the curve's a left out of the tangent's slope
dbl_noA(P) ==
    IF P[1] = None THEN P
    ELSE IF P[2] = 0 THEN <<None, None>>
    ELSE LET xP == P[1]
             yP == P[2]
         IN  IF ~Invertible(2 * yP, p) THEN ValueError
             ELSE LET s  == (3 * pow(xP, 2, p)) * pow(2 * yP, -1, p)
                      xR == (pow(s, 2, p) - 2 * xP) % p
                  IN  <<xR, (-yP + s * (xP - xR)) % p>>

dbl(P) ==
    IF P[1] = None THEN P
    ELSE IF P[2] = 0 THEN <<None, None>>
    ELSE LET xP == P[1]
             yP == P[2]
         IN  IF ~Invertible(2 * yP, p) THEN ValueError
             ELSE LET s  == (3 * pow(xP, 2, p) + a) * pow(2 * yP, -1, p)
                      xR == (pow(s, 2, p) - 2 * xP) % p
                  IN  <<xR, (-yP + s * (xP - xR)) % p>>

\* add with the inverse-pair case left out
add_noInverseCase(P, Q) ==
    IF P = Q THEN dbl(P)
    ELSE IF P[1] = None THEN Q
    ELSE IF Q[1] = None THEN P
    ELSE LET xP == P[1]
             yP == P[2]
             xQ == Q[1]
             yQ == Q[2]
         IN  IF ~Invertible(xP - xQ, p) THEN ValueError
             ELSE LET s  == (yP - yQ) * pow(xP - xQ, -1, p)
                      xR == (pow(s, 2, p) - xP - xQ) % p
                  IN  <<xR, (-yP + s * (xP - xR)) % p>>

\* add with xQ left out of the chord's xR
add_dropXQ(P, Q) ==
    IF P = Q THEN dbl(P)
    ELSE IF P[1] = None THEN Q
    ELSE IF Q[1] = None THEN P
    ELSE IF Q = inv(P) THEN <<None, None>>
    ELSE LET xP == P[1]
             yP == P[2]
             xQ == Q[1]
             yQ == Q[2]
         IN  IF ~Invertible(xP - xQ, p) THEN ValueError
             ELSE LET s  == (yP - yQ) * pow(xP - xQ, -1, p)
                      xR == (pow(s, 2, p) - xP) % p
                  IN  <<xR, (-yP + s * (xP - xR)) % p>>

add(P, Q) ==
    IF P = Q THEN dbl(P)
    ELSE IF P[1] = None THEN Q
    ELSE IF Q[1] = None THEN P
    ELSE IF Q = inv(P) THEN <<None, None>>
    ELSE LET xP == P[1]
             yP == P[2]
             xQ == Q[1]
             yQ == Q[2]
         IN  IF ~Invertible(xP - xQ, p) THEN ValueError
             ELSE LET s  == (yP - yQ) * pow(xP - xQ, -1, p)
                      xR == (pow(s, 2, p) - xP - xQ) % p
                  IN  <<xR, (-yP + s * (xP - xR)) % p>>

\* the while body testing the bit after the shift
mulBody_bitAfterShift(N, R, k) ==
    LET k2  == k \div 2
        bit == k2 % 2
        R2  == IF bit # 0 THEN add(R, N) ELSE R
    IN  IF R2 = ValueError THEN ValueError
        ELSE LET N2 == dbl(N)
             IN  IF N2 = ValueError THEN ValueError
                 ELSE <<N2, R2, k2>>

\* the while body counting k down instead of shifting it
mulBody_decrement(N, R, k) ==
    LET bit == k % 2
        k2  == k - 1
        R2  == IF bit # 0 THEN add(R, N) ELSE R
    IN  IF R2 = ValueError THEN ValueError
        ELSE LET N2 == dbl(N)
             IN  IF N2 = ValueError THEN ValueError
                 ELSE <<N2, R2, k2>>

\* the while body with the doubling of N left out
mulBody_noDouble(N, R, k) ==
    LET bit == k % 2
        k2  == k \div 2
        R2  == IF bit # 0 THEN add(R, N) ELSE R
    IN  IF R2 = ValueError THEN ValueError
        ELSE <<N, R2, k2>>

\* One pass of mul's while body on the locals <<N, R, k>>; ValueError when
\* add or dbl raised.
mulBody(N, R, k) ==
    LET bit == k % 2
        k2  == k \div 2
        R2  == IF bit # 0 THEN add(R, N) ELSE R
    IN  IF R2 = ValueError THEN ValueError
        ELSE LET N2 == dbl(N)
             IN  IF N2 = ValueError THEN ValueError
                 ELSE <<N2, R2, k2>>

RECURSIVE mulLoop(_, _, _)
mulLoop(N, R, k) ==
    IF k = 0 THEN R
    ELSE LET st == mulBody(N, R, k)
         IN  IF st = ValueError THEN ValueError
             ELSE mulLoop(st[1], st[2], st[3])

mul(P, k) ==
    IF P[1] = None THEN P
    ELSE mulLoop(P, <<None, None>>, k)

\* ------------------------------------------------------------ codec

\* FieldArithmetic.sqrt: v^((p+1)/4) mod p, a square root of v when v is a
\* quadratic residue and p % 4 = 3.
sqrt(v) == pow(v, (p + 1) \div 4, p)

\* the "large/small" classification of a y coordinate: 1 iff y > p/2
sign_of(y) == IF 2 * y > p THEN 1 ELSE 0

NotCompressible == <<"NotCompressible">>
NoSquareRoot == <<"NoSquareRoot">>

\* PointCodec.compress: <<x, sign>> of an affine point.
compress(P) ==
    IF P[1] = None THEN NotCompressible
    ELSE <<P[1], sign_of(P[2])>>

\* decompress returning the computed root whatever the sign asks for
decompress_ignoreSign(c) ==
    LET x        == c[1]
        radicand == (pow(x, 3, p) + a * x + b) % p
        y0       == sqrt(radicand)
    IN  IF (y0 * y0) % p # radicand THEN NoSquareRoot
        ELSE <<x, y0>>

\* PointCodec.decompress of c = <<x, sign>>.
decompress(c) ==
    LET x        == c[1]
        radicand == (pow(x, 3, p) + a * x + b) % p
        y0       == sqrt(radicand)
    IN  IF (y0 * y0) % p # radicand THEN NoSquareRoot
        ELSE IF sign_of(y0) = c[2] THEN <<x, y0>>
        ELSE <<x, p - y0>>

\* ------------------------------------------------------------ state

VARIABLES
    pc,      \* position: in the MAIN script, or of a direct call
    da,      \* Bob's private key
    Qa,      \* Bob's public key
    rnd,     \* Alice's one-time random number
    S,       \* Alice's secret point
    s,       \* Alice's key, the digest of S
    R,       \* the transmitted point ('cypherText')
    Srx,     \* the point Bob recovers
    srx,     \* Bob's key, the digest of Srx
    op,      \* the function called directly
    argP,    \* its first point argument
    argQ,    \* its second point argument (add), or the compressed pair
    argk,    \* its scalar argument (mul)
    res,     \* what the call returned or raised
    mul_N,   \* mul's local N
    mul_R,   \* mul's local R
    mul_k,   \* mul's local k
    iters,   \* passes of mul's while body so far
    dbls,    \* calls of dbl made by mul's loop so far
    adds     \* calls of add made by mul's loop so far

mainVars == <<da, Qa, rnd, S, s, R, Srx, srx>>
callVars == <<op, argP, argQ, argk, res>>
mulVars == <<mul_N, mul_R, mul_k, iters, dbls, adds>>
vars == <<pc, da, Qa, rnd, S, s, R, Srx, srx, op, argP, argQ, argk, res,
          mul_N, mul_R, mul_k, iters, dbls, adds>>

\* a name not bound yet
Unset == <<"unset">>

\* md5(str(P).encode()).digest(): a fixed function of the point's text, kept
\* opaque.
md5(P) == <<"md5", P>>

\* The integers int.from_bytes(os.urandom(m)) can return: every integer of at
\* most m bytes (up to MaxRnd).
urandom_ints(m) == {r \in 0 .. MaxRnd : byte_length(r) <= m}

\* ------------------------------------------------------------ MAIN

NoCall ==
    /\ op = "none" /\ argP = Unset /\ argQ = Unset /\ argk = None
    /\ res = Unset
    /\ mul_N = Unset /\ mul_R = Unset /\ mul_k = None
    /\ iters = 0 /\ dbls = 0 /\ adds = 0

\* The script before its first statement; da is the literal of line 119,
\* any private key 0 < da < n.
Init ==
    /\ pc = "keygen"
    /\ da \in 1 .. (n - 1)
    /\ Qa = Unset /\ rnd = None /\ S = Unset /\ s = Unset /\ R = Unset
    /\ Srx = Unset /\ srx = Unset
    /\ NoCall

\* lines 119-122: assert da < n; Qa = mul(G, da).  An exception mul raises
\* ends the script, here and below.
KeyGen ==
    /\ pc = "keygen"
    /\ pc' = IF ~(da < n) THEN "AssertionError"
             ELSE IF mul(G, da) = ValueError THEN "ValueError"
             ELSE "encrypt"
    /\ Qa' = IF da < n /\ mul(G, da) # ValueError THEN mul(G, da) ELSE Qa
    /\ UNCHANGED <<da, rnd, S, s, R, Srx, srx, callVars, mulVars>>

\* lines 128-134: rnd from os.urandom, S = mul(Qa, rnd), s, R = mul(G, rnd)
Encrypt ==
    /\ pc = "encrypt"
    /\ \E r \in urandom_ints(bit_length(n) - 1) :
          /\ rnd' = r
          /\ IF mul(Qa, r) = ValueError
             THEN /\ pc' = "ValueError"
                  /\ UNCHANGED <<S, s, R>>
             ELSE /\ S' = mul(Qa, r)
                  /\ s' = md5(mul(Qa, r))
                  /\ IF mul(G, r) = ValueError
                     THEN /\ pc' = "ValueError"
                          /\ UNCHANGED R
                     ELSE /\ R' = mul(G, r)
                          /\ pc' = "decrypt"
    /\ UNCHANGED <<da, Qa, Srx, srx, callVars, mulVars>>

\* lines 138-153: Srx = mul(R, da), srx, assert Srx == S, assert srx == s
Decrypt ==
    /\ pc = "decrypt"
    /\ IF mul(R, da) = ValueError
       THEN /\ pc' = "ValueError"
            /\ UNCHANGED <<Srx, srx>>
       ELSE /\ Srx' = mul(R, da)
            /\ srx' = md5(mul(R, da))
            /\ pc' = IF mul(R, da) = S /\ md5(mul(R, da)) = s
                     THEN "done" ELSE "AssertionError"
    /\ UNCHANGED <<da, Qa, rnd, S, s, R, callVars, mulVars>>

Next == KeyGen \/ Encrypt \/ Decrypt

Spec == Init /\ [][Next]_vars

\* ------------------------------------------------------------ direct calls

NoMain ==
    /\ da = None /\ Qa = Unset /\ rnd = None /\ S = Unset /\ s = Unset
    /\ R = Unset /\ Srx = Unset /\ srx = Unset

\* Before a call of one of the library's functions on arguments of the
\* caller's choice.
CallInit ==
    /\ pc = "idle"
    /\ NoMain
    /\ NoCall

CallInv ==
    /\ pc = "idle"
    /\ \E P \in Points :
          /\ op' = "inv" /\ argP' = P
          /\ res' = inv(P)
    /\ pc' = "returned"
    /\ UNCHANGED <<mainVars, argQ, argk, mulVars>>

CallDbl ==
    /\ pc = "idle"
    /\ \E P \in Points :
          /\ op' = "dbl" /\ argP' = P
          /\ res' = dbl(P)
    /\ pc' = "returned"
    /\ UNCHANGED <<mainVars, argQ, argk, mulVars>>

CallAdd ==
    /\ pc = "idle"
    /\ \E P \in Points, Q \in Points :
          /\ op' = "add" /\ argP' = P /\ argQ' = Q
          /\ res' = add(P, Q)
    /\ pc' = "returned"
    /\ UNCHANGED <<mainVars, argk, mulVars>>

\* mul(P, k) up to its while loop (lines 103-104)
CallMul ==
    /\ pc = "idle"
    /\ \E P \in Points, k \in 0 .. MaxK :
          /\ op' = "mul" /\ argP' = P /\ argk' = k
          /\ IF P[1] = None
             THEN /\ res' = P /\ pc' = "returned"
                  /\ UNCHANGED <<mul_N, mul_R, mul_k>>
             ELSE /\ mul_N' = P /\ mul_R' = <<None, None>> /\ mul_k' = k
                  /\ pc' = "mul_while"
                  /\ UNCHANGED res
    /\ UNCHANGED <<mainVars, argQ, iters, dbls, adds>>

\* one pass of the while body (lines 105-109)
MulIter ==
    /\ pc = "mul_while"
    /\ mul_k # 0
    /\ LET st == mulBody(mul_N, mul_R, mul_k)
       IN  IF st = ValueError
           THEN /\ res' = ValueError /\ pc' = "returned"
                /\ UNCHANGED <<mul_N, mul_R, mul_k>>
           ELSE /\ mul_N' = st[1] /\ mul_R' = st[2] /\ mul_k' = st[3]
                /\ pc' = "mul_while"
                /\ UNCHANGED res
    /\ iters' = iters + 1
    /\ adds' = IF mul_k % 2 # 0 THEN adds + 1 ELSE adds
    /\ dbls' = IF mul_k % 2 # 0 /\ add(mul_R, mul_N) = ValueError
               THEN dbls ELSE dbls + 1
    /\ UNCHANGED <<mainVars, op, argP, argQ, argk>>

\* the loop ends and mul returns R (lines 105, 110)
MulReturn ==
    /\ pc = "mul_while"
    /\ mul_k = 0
    /\ res' = mul_R
    /\ pc' = "returned"
    /\ UNCHANGED <<mainVars, op, argP, argQ, argk, mulVars>>

CallCompress ==
    /\ pc = "idle"
    /\ \E P \in Points :
          /\ op' = "compress" /\ argP' = P
          /\ res' = compress(P)
    /\ pc' = "returned"
    /\ UNCHANGED <<mainVars, argQ, argk, mulVars>>

CallDecompress ==
    /\ pc = "idle"
    /\ \E c \in Field \X {0, 1} :
          /\ op' = "decompress" /\ argQ' = c
          /\ res' = decompress(c)
    /\ pc' = "returned"
    /\ UNCHANGED <<mainVars, argP, argk, mulVars>>

CallNext ==
    \/ CallInv
    \/ CallDbl
    \/ CallAdd
    \/ CallMul
    \/ MulIter
    \/ MulReturn
    \/ CallCompress
    \/ CallDecompress

CallSpec == CallInit /\ [][CallNext]_vars

\* ------------------------------------------------------------ properties

\* P is the point at infinity or an affine point of field elements with
\* y^2 = x^3 + a*x + b (mod p).
IsOnCurve(P) ==
    \/ P = Identity
    \/ /\ P \in Field \X Field
       /\ (P[2] * P[2]) % p = (P[1] * P[1] * P[1] + a * P[1] + b) % p

IsAffine(P) == P \in Field \X Field

\* the k-fold group sum: Identity, then add(., P) k times
RECURSIVE KFold(_, _)
KFold(P, k) == IF k = 0 THEN Identity ELSE add(KFold(P, k - 1), P)

\* C1: once Bob has recovered Srx, for a private key da and a random number
\* rnd in [1, n), Srx = mul(mul(G, rnd), da) equals Alice's
\* S = mul(mul(G, da), rnd), both assertions pass and the keys agree.
C1_KeyAgreement ==
    (pc \in {"done", "AssertionError"} /\ da \in 1 .. (n - 1)
        /\ rnd \in 1 .. (n - 1))
    => /\ S = mul(mul(G, da), rnd)
       /\ Srx = mul(mul(G, rnd), da)
       /\ Srx = S
       /\ srx = s
       /\ pc = "done"

C1_Witness ==
    /\ pc = "done"
    /\ da \in 2 .. (n - 1) /\ rnd \in 2 .. (n - 1) /\ da # rnd
    /\ IsAffine(S) /\ Srx = S /\ R # Qa

\* C2: mul(P, k) of an on-curve point P (Identity included) returns the
\* k-fold group sum of P; mul(P, 0) and mul(Identity, k) are Identity.
C2_MulIsKFoldSum ==
    (pc = "returned" /\ op = "mul" /\ IsOnCurve(argP))
    => /\ res = KFold(argP, argk)
       /\ (argk = 0 => res = Identity)
       /\ (argP = Identity => res = Identity)

C2_Witness ==
    /\ pc = "returned" /\ op = "mul"
    /\ IsAffine(argP) /\ IsOnCurve(argP)
    /\ argk > n /\ argk % 2 = 1
    /\ IsAffine(res) /\ res # argP /\ res = KFold(argP, argk)

\* C3: for an on-curve P and k1 in [0, n), the point mul(P, k1) returned
\* satisfies mul(P, (k1 + k2) mod n) = add(mul(P, k1), mul(P, k2)) for every
\* k2 in [0, n).
C3_MulAdditive ==
    (pc = "returned" /\ op = "mul" /\ IsOnCurve(argP) /\ argk < n)
    => \A k2 \in 0 .. (n - 1) :
          mul(argP, (argk + k2) % n) = add(res, mul(argP, k2))

C3_Witness ==
    /\ pc = "returned" /\ op = "mul"
    /\ IsAffine(argP) /\ IsOnCurve(argP)
    /\ argk = n - 2
    /\ mul(argP, 1) = add(res, mul(argP, 3))
    /\ IsAffine(res)

\* Valid points of the identity and inverse laws: the on-curve points, and
\* the affine points with y = 0, which are their own inverses (a curve of
\* odd prime cardinality has none of these on it).
ValidForLaws(P) == IsOnCurve(P) \/ (IsAffine(P) /\ P[2] = 0)

\* C4: add(P, inv(P)) = Identity, add(P, Identity) = P and
\* add(Identity, P) = P for every valid point P.
C4_IdentityInverse ==
    (pc = "returned" /\ op = "add")
    => /\ (ValidForLaws(argP) /\ argQ = inv(argP) => res = Identity)
       /\ (ValidForLaws(argP) /\ argQ = Identity => res = argP)
       /\ (ValidForLaws(argQ) /\ argP = Identity => res = argQ)

C4_Witness ==
    /\ pc = "returned" /\ op = "add"
    /\ IsAffine(argP) /\ IsOnCurve(argP)
    /\ argQ = inv(argP) /\ argQ # argP
    /\ res = Identity

\* C5: the random number in use after it was drawn satisfies 0 < rnd < n.
C5_RndInRange ==
    pc \in {"decrypt", "done", "AssertionError"} => (0 < rnd /\ rnd < n)

\* the explicit failure the design asks for on a point off the curve
InvalidPoint == <<"InvalidPoint">>

\* C6: mul, add and dbl given an affine point off the curve end in the
\* failure InvalidPoint and produce no point.
C6_OffCurveRejected ==
    (pc = "returned" /\ op \in {"mul", "add", "dbl"}
        /\ IsAffine(argP) /\ ~IsOnCurve(argP))
    => res = InvalidPoint

\* C7: decompress(compress(P)) = P for every affine on-curve P, compress(P)
\* being <<x, sign>> with sign = 1 iff y > p/2.
C7_RoundTrip ==
    (pc = "returned" /\ op = "compress" /\ IsAffine(argP) /\ IsOnCurve(argP))
    => /\ res = <<argP[1], IF 2 * argP[2] > p THEN 1 ELSE 0>>
       /\ decompress(res) = argP

C7_Witness ==
    /\ pc = "returned" /\ op = "compress"
    /\ IsAffine(argP) /\ IsOnCurve(argP)
    /\ res[2] = 1
    /\ sqrt((pow(argP[1], 3, p) + a * argP[1] + b) % p) # argP[2]
    /\ decompress(res) = argP

\* C8: add and dbl of on-curve points never hand a non-invertible
\* denominator to pow: add reaches its chord formula only with xP # xQ
\* (mod p), dbl its tangent formula only with 2*yP # 0 (mod p), and
\* neither raises.
C8_NoDivideByZero ==
    /\ (pc = "returned" /\ op = "add" /\ IsOnCurve(argP) /\ IsOnCurve(argQ))
       => /\ res # ValueError
          /\ (argP # argQ /\ argP # Identity /\ argQ # Identity
                 /\ argQ # inv(argP))
             => (argP[1] - argQ[1]) % p # 0
    /\ (pc = "returned" /\ op = "dbl" /\ IsOnCurve(argP))
       => /\ res # ValueError
          /\ (argP # Identity /\ argP[2] # 0) => (2 * argP[2]) % p # 0

C8_Witness ==
    /\ pc = "returned" /\ op = "add"
    /\ IsAffine(argP) /\ IsOnCurve(argP)
    /\ IsAffine(argQ) /\ IsOnCurve(argQ)
    /\ argP # argQ /\ argQ # inv(argP)
    /\ IsAffine(res)

\* C9: inv, dbl, add and mul of on-curve points return on-curve points,
\* and so are mul's N and R at every pass of its loop.
C9_Closure ==
    /\ (pc = "returned" /\ op \in {"inv", "dbl", "mul"} /\ IsOnCurve(argP))
       => (res # ValueError /\ IsOnCurve(res))
    /\ (pc = "returned" /\ op = "add" /\ IsOnCurve(argP) /\ IsOnCurve(argQ))
       => (res # ValueError /\ IsOnCurve(res))
    /\ (pc = "mul_while" /\ IsOnCurve(argP))
       => (IsOnCurve(mul_N) /\ IsOnCurve(mul_R))

C9_Witness ==
    /\ pc = "mul_while" /\ IsOnCurve(argP)
    /\ iters >= 2 /\ mul_k # 0
    /\ IsAffine(mul_N) /\ IsAffine(mul_R) /\ mul_N # mul_R
    /\ mul_N # argP /\ mul_R # argP

\* C10: mul's loop consumes one bit of k per pass: after i passes
\* bit_length(k) - i bits are left, so mul returns after exactly
\* bit_length(k) passes (none for k = 0 or P = Identity), with as many
\* doublings and at most as many additions.
C10_MulTerminates ==
    /\ (pc = "mul_while")
       => /\ iters + bit_length(mul_k) = bit_length(argk)
          /\ dbls = iters /\ adds <= iters
          /\ ENABLED (MulIter \/ MulReturn)
    /\ (pc = "returned" /\ op = "mul")
       => /\ res # ValueError
          /\ iters = (IF argP = Identity THEN 0 ELSE bit_length(argk))
          /\ dbls = iters /\ adds <= iters

C10_Witness ==
    /\ pc = "returned" /\ op = "mul"
    /\ IsAffine(argP) /\ ~IsOnCurve(argP)
    /\ argk = 20
    /\ iters = 5 /\ dbls = iters /\ adds < iters /\ adds > 1

=============================================================================
